---- MODULE Spec2Model ----
(***************************************************************************)
(* A model of the contacts backend: the contact repository                 *)
(* (src/src/repository/contacts.py), the contacts routes                   *)
(* (src/src/routes/contacts.py) with their rate limit and their            *)
(* authentication dependency, the calendar arithmetic of the birthday      *)
(* lookup, the user repository (src/src/repository/users.py), and          *)
(* update_contact run by two request sessions at once.                     *)
(*                                                                         *)
(* Text values are sequences of one-character strings, so that ILIKE and   *)
(* the 'MM-DD' comparison are computed character by character.             *)
(***************************************************************************)
EXTENDS Integers, Sequences, FiniteSets, TLC

VARIABLES
    contacts,   \* the rows of the contacts table, in row order
    nextId,     \* the next value of the table's id sequence
    today,      \* date.today(): [year, month, day]
    ret,        \* the last repository call: its arguments, its result, the rows before it
    tracked,    \* history: one earlier remove_contact call, whether its id had been
                \* assigned by then, and whether it found the contact
    hits,       \* the limiter's storage: request counter per <<route, client>>
    resp,       \* the last HTTP exchange of a contacts route
    limited,    \* history: the <<route, client>> last answered 429, or << >>
    users,      \* the rows of the users table, in row order
    uret,       \* the last call of the user repository: arguments, outcome, rows before
    sessions,   \* the request sessions that are inside update_contact
    committed   \* history: the session and body of the update that committed last

vars == <<contacts, nextId, today, ret, tracked, hits, resp, limited,
          users, uret, sessions, committed>>

\* What the contact repository called through one session leaves alone, and
\* what the user repository leaves alone.
users_table == <<users, uret>>
open_sessions == <<sessions, committed>>

(***************************************************************************)
(* Bounds of the model.                                                    *)
(***************************************************************************)
MaxRows == 2        \* rows the table may hold
MaxId == 3          \* values the id sequence may hand out
MaxOver == 2        \* requests explored beyond the rate ceiling in one window

\* The rows of the users table: two users, as the auth dependency resolves them.
User(id, email) == [id |-> id, email |-> email]
Users == {User(1, "u1@example.com"), User(2, "u2@example.com")}

(***************************************************************************)
(* Python None / SQL NULL for a contact, a text column and a date column.  *)
(***************************************************************************)
None == [none |-> TRUE]
NULL == <<"NULL">>
NoDate == [year |-> 0, month |-> 0, day |-> 0]

(***************************************************************************)
(* Text.                                                                   *)
(***************************************************************************)
UpperChars ==
    <<"A","B","C","D","E","F","G","H","I","J","K","L","M",
      "N","O","P","Q","R","S","T","U","V","W","X","Y","Z">>
LowerChars ==
    <<"a","b","c","d","e","f","g","h","i","j","k","l","m",
      "n","o","p","q","r","s","t","u","v","w","x","y","z">>

Lower(c) ==
    IF \E i \in 1..Len(UpperChars) : UpperChars[i] = c
    THEN LowerChars[CHOOSE i \in 1..Len(UpperChars) : UpperChars[i] = c]
    ELSE c

\* The pattern match of LIKE, on case-folded characters: % is any run of
\* characters, _ is any one character, any other character is itself.
RECURSIVE LikeMatch(_, _)
LikeMatch(s, p) ==
    IF p = <<>> THEN s = <<>>
    ELSE IF Head(p) = "%"
         THEN LikeMatch(s, Tail(p)) \/ (s # <<>> /\ LikeMatch(Tail(s), p))
    ELSE IF s = <<>> THEN FALSE
    ELSE /\ (Head(p) = "_" \/ Lower(Head(p)) = Lower(Head(s)))
         /\ LikeMatch(Tail(s), Tail(p))

\* column ILIKE query; a NULL column never matches.
ilike(column, query) ==
    column # NULL /\ LikeMatch(column, query)

(***************************************************************************)
(* Dates.                                                                  *)
(***************************************************************************)
IsLeap(y) == (y % 4 = 0 /\ y % 100 # 0) \/ y % 400 = 0

DaysInMonth(y, m) ==
    IF m = 2 THEN (IF IsLeap(y) THEN 29 ELSE 28)
    ELSE IF m \in {4, 6, 9, 11} THEN 30 ELSE 31

NextDate(d) ==
    IF d.day < DaysInMonth(d.year, d.month)
    THEN [d EXCEPT !.day = d.day + 1]
    ELSE IF d.month < 12
         THEN [year |-> d.year, month |-> d.month + 1, day |-> 1]
         ELSE [year |-> d.year + 1, month |-> 1, day |-> 1]

\* d + timedelta(days=n)
RECURSIVE timedelta(_, _)
timedelta(d, n) == IF n = 0 THEN d ELSE timedelta(NextDate(d), n - 1)

DigitChars == <<"0","1","2","3","4","5","6","7","8","9">>

\* strftime("%m-%d") and TO_CHAR(birthday, 'MM-DD'): five characters.
strftime_md(d) ==
    << DigitChars[(d.month \div 10) + 1], DigitChars[(d.month % 10) + 1], "-",
       DigitChars[(d.day \div 10) + 1], DigitChars[(d.day % 10) + 1] >>

\* The code point of a character of an 'MM-DD' string.
Ord(c) ==
    IF c = "-" THEN 45
    ELSE 47 + CHOOSE i \in 1..10 : DigitChars[i] = c

\* s <= t for two strings, character by character.
RECURSIVE StrLeq(_, _)
StrLeq(s, t) ==
    IF s = <<>> THEN TRUE
    ELSE IF t = <<>> THEN FALSE
    ELSE IF Ord(Head(s)) # Ord(Head(t)) THEN Ord(Head(s)) < Ord(Head(t))
    ELSE StrLeq(Tail(s), Tail(t))

\* x BETWEEN lo AND hi, on strings: both ends included.
between_bug_exclusive(x, lo, hi) == StrLeq(lo, x) /\ StrLeq(x, hi) /\ x # hi
BETWEEN(x, lo, hi) == StrLeq(lo, x) /\ StrLeq(x, hi)

(***************************************************************************)
(* ContactRequest bodies (src/src/schemas.py): first_name of 2 to 20       *)
(* characters, last_name of at most 20, an optional e-mail address, an     *)
(* optional phone number of the schema's pattern, an optional birthday.    *)
(***************************************************************************)
Date(y, m, d) == [year |-> y, month |-> m, day |-> d]

ContactRequest(first_name, last_name, email, phone_number, birthday) ==
    [first_name |-> first_name, last_name |-> last_name, email |-> email,
     phone_number |-> phone_number, birthday |-> birthday]

Body1 ==
    ContactRequest(<<"J","o">>, <<"D","o","e">>, <<"j","o","@","x",".","y">>,
                   "+123456789012", Date(1990, 12, 28))
Body2 ==
    ContactRequest(<<"A","l">>, <<"J","o","e">>, NULL, "None", Date(2000, 1, 2))

Bodies == {Body1, Body2}

Queries == { <<"j","o">>, <<"J","O","E">>, <<"j","%">> }
Ids == 1..MaxId
\* <<offset, limit>> of the paged queries
Pages == { <<0, 10>>, <<0, 1>>, <<1, 1>> }
Today0 == Date(2024, 12, 21)

(***************************************************************************)
(* The contacts table and the queries of the repository.  db is the        *)
(* session's view of the table: its rows and its id sequence.              *)
(***************************************************************************)
db == [rows |-> contacts, seq |-> nextId]

Contact(id, body, user_id) ==
    [id |-> id, first_name |-> body.first_name, last_name |-> body.last_name,
     email |-> body.email, phone_number |-> body.phone_number,
     birthday |-> body.birthday, user_id |-> user_id]

\* Query.first(): the first row, or None.
first(rows) == IF rows = <<>> THEN None ELSE Head(rows)

Min(a, b) == IF a < b THEN a ELSE b

\* Query.offset(offset).limit(limit).all()
offset_limit(rows, offset, limit) ==
    SubSeq(rows, offset + 1, Min(Len(rows), offset + limit))

\* The page cut from the whole table, before the filter on the owner.
get_contacts_bug_offset_first(offset, limit, user, d) ==
    SelectSeq(offset_limit(d.rows, offset, limit), LAMBDA c : c.user_id = user.id)
get_contacts(offset, limit, user, d) ==
    offset_limit(SelectSeq(d.rows, LAMBDA c : c.user_id = user.id), offset, limit)

get_contact_bug_unscoped(contact_id, user, d) ==
    first(SelectSeq(d.rows, LAMBDA c : c.id = contact_id))
get_contact(contact_id, user, d) ==
    first(SelectSeq(SelectSeq(d.rows, LAMBDA c : c.user_id = user.id),
                    LAMBDA c : c.id = contact_id))

\* db.add, db.commit, db.refresh: the row gets the next id of the sequence.
create_contact_bug_swapped(body, user, d) ==
    LET contact == Contact(d.seq, [body EXCEPT !.first_name = body.last_name,
                                               !.last_name = body.first_name], user.id)
    IN  [db |-> [rows |-> Append(d.rows, contact), seq |-> d.seq + 1],
         result |-> contact]
create_contact(body, user, d) ==
    LET contact == Contact(d.seq, body, user.id)
    IN  [db |-> [rows |-> Append(d.rows, contact), seq |-> d.seq + 1],
         result |-> contact]

update_contact_bug_unscoped(contact_id, body, user, d) ==
    LET contact == first(SelectSeq(d.rows, LAMBDA c : c.id = contact_id))
    IN  IF contact # None
        THEN LET updated == Contact(contact.id, body, contact.user_id)
             IN  [db |-> [d EXCEPT !.rows =
                            [i \in 1..Len(d.rows) |->
                                IF d.rows[i] = contact THEN updated ELSE d.rows[i]]],
                  result |-> updated]
        ELSE [db |-> d, result |-> None]
\* The update without the assignment of the birthday.
update_contact_bug_keeps_birthday(contact_id, body, user, d) ==
    LET contact == first(SelectSeq(d.rows,
                            LAMBDA c : c.id = contact_id /\ c.user_id = user.id))
    IN  IF contact # None
        THEN LET updated == Contact(contact.id, [body EXCEPT !.birthday = contact.birthday],
                                    contact.user_id)
             IN  [db |-> [d EXCEPT !.rows =
                            [i \in 1..Len(d.rows) |->
                                IF d.rows[i] = contact THEN updated ELSE d.rows[i]]],
                  result |-> updated]
        ELSE [db |-> d, result |-> None]
update_contact(contact_id, body, user, d) ==
    LET contact == first(SelectSeq(d.rows,
                            LAMBDA c : c.id = contact_id /\ c.user_id = user.id))
    IN  IF contact # None
        THEN LET updated == Contact(contact.id, body, contact.user_id)
             IN  [db |-> [d EXCEPT !.rows =
                            [i \in 1..Len(d.rows) |->
                                IF d.rows[i] = contact THEN updated ELSE d.rows[i]]],
                  result |-> updated]
        ELSE [db |-> d, result |-> None]

remove_contact_bug_nodelete(contact_id, user, d) ==
    LET contact == first(SelectSeq(d.rows,
                            LAMBDA c : c.id = contact_id /\ c.user_id = user.id))
    IN  [db |-> d, result |-> contact]
\* The delete that takes every contact of the caller with it.
remove_contact_bug_cascade(contact_id, user, d) ==
    LET contact == first(SelectSeq(d.rows,
                            LAMBDA c : c.id = contact_id /\ c.user_id = user.id))
    IN  IF contact # None
        THEN [db |-> [d EXCEPT !.rows = SelectSeq(d.rows, LAMBDA c : c.user_id # user.id)],
              result |-> contact]
        ELSE [db |-> d, result |-> None]
\* The delete that does not filter on the owner.
remove_contact_bug_unscoped(contact_id, user, d) ==
    LET contact == first(SelectSeq(d.rows, LAMBDA c : c.id = contact_id))
    IN  IF contact # None
        THEN [db |-> [d EXCEPT !.rows = SelectSeq(d.rows, LAMBDA c : c # contact)],
              result |-> contact]
        ELSE [db |-> d, result |-> None]
remove_contact(contact_id, user, d) ==
    LET contact == first(SelectSeq(d.rows,
                            LAMBDA c : c.id = contact_id /\ c.user_id = user.id))
    IN  IF contact # None
        THEN [db |-> [d EXCEPT !.rows = SelectSeq(d.rows, LAMBDA c : c # contact)],
              result |-> contact]
        ELSE [db |-> d, result |-> None]

search_contacts(query, offset, limit, user, d) ==
    offset_limit(
        SelectSeq(d.rows,
            LAMBDA c : /\ c.user_id = user.id
                       /\ (\/ ilike(c.first_name, query)
                           \/ ilike(c.last_name, query)
                           \/ ilike(c.email, query))),
        offset, limit)

\* The offset and limit arguments are not used by the query.
find_contacts_by_birthday(offset, limit, user, d, day) ==
    LET next_week == timedelta(day, 7)
    IN  SelectSeq(d.rows,
            LAMBDA c : /\ c.birthday # NoDate
                       /\ BETWEEN(strftime_md(c.birthday),
                                  strftime_md(day), strftime_md(next_week))
                       /\ c.user_id = user.id)

(***************************************************************************)
(* Calls of the repository, as the tests of the repository make them: any  *)
(* user, any arguments.  ret records the call, its result and the rows     *)
(* the table held before it.                                               *)
(***************************************************************************)
Call(op, user, contact_id, body, query, offset, limit, result) ==
    [op |-> op, user |-> user, contact_id |-> contact_id, body |-> body,
     query |-> query, offset |-> offset, limit |-> limit, result |-> result,
     pre |-> contacts]

NoCall == [user |-> None, contact_id |-> 0, assigned |-> FALSE, found |-> FALSE]

Repo_get_contacts(user, offset, limit) ==
    /\ ret' = Call("get_contacts", user, 0, None, <<>>, offset, limit,
                   get_contacts(offset, limit, user, db))
    /\ UNCHANGED <<contacts, nextId, today, tracked, hits, resp, limited>>
    /\ UNCHANGED <<users_table, open_sessions>>

Repo_get_contact(user, contact_id) ==
    /\ ret' = Call("get_contact", user, contact_id, None, <<>>, 0, 0,
                   get_contact(contact_id, user, db))
    /\ UNCHANGED <<contacts, nextId, today, tracked, hits, resp, limited>>
    /\ UNCHANGED <<users_table, open_sessions>>

Repo_create_contact(user, body) ==
    /\ nextId <= MaxId
    /\ Len(contacts) < MaxRows
    /\ LET r == create_contact(body, user, db)
       IN  /\ contacts' = r.db.rows
           /\ nextId' = r.db.seq
           /\ ret' = Call("create_contact", user, 0, body, <<>>, 0, 0, r.result)
    /\ UNCHANGED <<today, tracked, hits, resp, limited>>
    /\ UNCHANGED <<users_table, open_sessions>>

Repo_update_contact(user, contact_id, body) ==
    /\ LET r == update_contact(contact_id, body, user, db)
       IN  /\ contacts' = r.db.rows
           /\ nextId' = r.db.seq
           /\ ret' = Call("update_contact", user, contact_id, body, <<>>, 0, 0, r.result)
    /\ UNCHANGED <<today, tracked, hits, resp, limited>>
    /\ UNCHANGED <<users_table, open_sessions>>

\* With track, the history variable picks up this call, once, so that a later
\* call can be compared with it.
Repo_remove_contact(user, contact_id, track) ==
    /\ LET r == remove_contact(contact_id, user, db)
       IN  /\ contacts' = r.db.rows
           /\ nextId' = r.db.seq
           /\ ret' = Call("remove_contact", user, contact_id, None, <<>>, 0, 0, r.result)
    /\ tracked' =
          IF track /\ tracked = NoCall
          THEN [user |-> user, contact_id |-> contact_id,
                assigned |-> contact_id < nextId,
                found |-> remove_contact(contact_id, user, db).result # None]
          ELSE tracked
    /\ UNCHANGED <<today, hits, resp, limited>>
    /\ UNCHANGED <<users_table, open_sessions>>

Repo_search_contacts(user, query, offset, limit) ==
    /\ ret' = Call("search_contacts", user, 0, None, query, offset, limit,
                   search_contacts(query, offset, limit, user, db))
    /\ UNCHANGED <<contacts, nextId, today, tracked, hits, resp, limited>>
    /\ UNCHANGED <<users_table, open_sessions>>

Repo_find_contacts_by_birthday(user, offset, limit) ==
    /\ ret' = Call("find_contacts_by_birthday", user, 0, None, <<>>, offset, limit,
                   find_contacts_by_birthday(offset, limit, user, db, today))
    /\ UNCHANGED <<contacts, nextId, today, tracked, hits, resp, limited>>
    /\ UNCHANGED <<users_table, open_sessions>>

NoRet == Call("", None, 0, None, <<>>, 0, 0, None)

\* The user repository has not been called; a session holds no request.
NoUserCall == [op |-> "", email |-> "", body |-> None, lookup |-> "", outcome |-> "",
               result |-> None, pre |-> << >>]
SessionIds == {"A", "B"}
Idle == [pc |-> "idle", user |-> None, contact_id |-> 0, body |-> None,
         contact |-> None, loaded |-> None]
NoResp == [route |-> "", client |-> "", token |-> None, status_code |-> 0,
           detail |-> "", body |-> None]

InitStore ==
    /\ contacts = <<>>
    /\ nextId = 1
    /\ ret = [NoRet EXCEPT !.pre = <<>>]
    /\ tracked = NoCall
    /\ hits = << >>
    /\ resp = NoResp
    /\ limited = << >>
    /\ users = << >>
    /\ uret = NoUserCall
    /\ sessions = [s \in SessionIds |-> Idle]
    /\ committed = None

Init ==
    /\ InitStore
    /\ today = Today0

Next ==
    \/ \E user \in Users, page \in Pages : Repo_get_contacts(user, page[1], page[2])
    \/ \E user \in Users, contact_id \in Ids : Repo_get_contact(user, contact_id)
    \/ \E user \in Users, body \in Bodies : Repo_create_contact(user, body)
    \/ \E user \in Users, contact_id \in Ids, body \in Bodies :
          Repo_update_contact(user, contact_id, body)
    \/ \E user \in Users, contact_id \in Ids :
          Repo_remove_contact(user, contact_id, FALSE)
    \/ \E user \in Users, query \in Queries, page \in Pages :
          Repo_search_contacts(user, query, page[1], page[2])
    \/ \E user \in Users, page \in Pages :
          Repo_find_contacts_by_birthday(user, page[1], page[2])

Spec == Init /\ [][Next]_vars

(***************************************************************************)
(* The same calls with one body, one query and one page, and with the      *)
(* history of one remove_contact call: the specification of the claims     *)
(* about a second delete.                                                  *)
(***************************************************************************)
NextDelete ==
    \/ \E user \in Users : Repo_get_contacts(user, 0, 10)
    \/ \E user \in Users, contact_id \in Ids : Repo_get_contact(user, contact_id)
    \/ \E user \in Users : Repo_create_contact(user, Body1)
    \/ \E user \in Users, contact_id \in Ids :
          Repo_update_contact(user, contact_id, Body2)
    \/ \E user \in Users, contact_id \in Ids, track \in BOOLEAN :
          Repo_remove_contact(user, contact_id, track)
    \/ \E user \in Users : Repo_search_contacts(user, <<"j","%">>, 0, 10)
    \/ \E user \in Users : Repo_find_contacts_by_birthday(user, 0, 10)

SpecDelete == Init /\ [][NextDelete]_vars

(***************************************************************************)
(* The auth dependency of the routes, Depends(auth_service.get_current_user)*)
(* : a bearer token carries its subject (an e-mail address), a type         *)
(* discriminator, whether it has expired and whether its signature is good. *)
(* A request without Authorization header has the token None.               *)
(***************************************************************************)
Token(sub, type, expired, signed) ==
    [sub |-> sub, type |-> type, expired |-> expired, signed |-> signed]

AccessToken(user) == Token(user.email, "access", FALSE, TRUE)
RefreshToken(user) == Token(user.email, "refresh", FALSE, TRUE)

\* The user a token resolves to, or None: the token must be present, signed,
\* not expired, of type access, and name the e-mail address of a user.
get_current_user(token) ==
    IF token = None THEN None
    ELSE IF ~token.signed \/ token.expired THEN None
    ELSE IF token.type # "access" THEN None
    ELSE IF \E u \in Users : u.email = token.sub
         THEN CHOOSE u \in Users : u.email = token.sub
         ELSE None

\* The user a route resolves from a token of whatever type: what a route would
\* get from a dependency that does not look at the type discriminator.
current_user_bug_anytype(token) ==
    IF token = None THEN None
    ELSE IF ~token.signed \/ token.expired THEN None
    ELSE IF \E u \in Users : u.email = token.sub
         THEN CHOOSE u \in Users : u.email = token.sub
         ELSE None
\* current_user: User = Depends(auth_service.get_current_user)
current_user(token) == get_current_user(token)

(***************************************************************************)
(* The limiter: a counter per <<route, client key>>, counting the requests *)
(* of the current window; the window's rollover empties the storage.       *)
(***************************************************************************)
RateLimit == 10     \* @limiter.limit(limit_value="10/minute")

Count(key) == IF key \in DOMAIN hits THEN hits[key] ELSE 0

\* The storage after one more request of key.
limiter_hit(key) ==
    [k \in DOMAIN hits \cup {key} |-> IF k = key THEN Count(key) + 1 ELSE hits[k]]

\* Whether the request that made the counter n is within the ceiling.
limit_bug_none(n, limit_value) == TRUE
limit(n, limit_value) == n <= limit_value

Rollover ==
    /\ DOMAIN hits # {}
    /\ hits' = << >>
    /\ UNCHANGED <<contacts, nextId, today, ret, tracked, resp, limited>>
    /\ UNCHANGED <<users_table, open_sessions>>

(***************************************************************************)
(* The routes.  FastAPI resolves the dependencies of an endpoint (the      *)
(* current user, the session) before it calls the endpoint, and the        *)
(* decorator @limiter.limit wraps the endpoint: a request whose token does *)
(* not resolve to a user is answered before the limiter sees it.           *)
(***************************************************************************)
\* response_model=ContactResponse: the id and the fields of ContactRequest.
ContactResponse(contact) ==
    [id |-> contact.id, first_name |-> contact.first_name,
     last_name |-> contact.last_name, email |-> contact.email,
     phone_number |-> contact.phone_number, birthday |-> contact.birthday]

\* response_model=List[ContactResponse]
ContactResponses(rows) == [i \in 1..Len(rows) |-> ContactResponse(rows[i])]

Response(route, client, token, status_code, detail, body) ==
    [route |-> route, client |-> client, token |-> token,
     status_code |-> status_code, detail |-> detail, body |-> body]

\* What an endpoint hands back: the session after it, the repository call it
\* made, and the response.
Handled(d, call, status_code, detail, body) ==
    [db |-> d, call |-> call, status_code |-> status_code, detail |-> detail,
     body |-> body]

\* raise HTTPException(status_code=status.HTTP_404_NOT_FOUND, detail="Contact not found")
\* if the contact is None, else the contact.
contact_or_404_bug_always200(r, call) ==
    Handled(r.db, call, 200, "",
            IF r.result = None THEN None ELSE ContactResponse(r.result))
contact_or_404(r, call) ==
    IF r.result = None
    THEN Handled(r.db, call, 404, "Contact not found", None)
    ELSE Handled(r.db, call, 200, "", ContactResponse(r.result))

\* One request to a route with the limiter ahead of the dependency: every
\* request is counted, and one over the ceiling is answered 429 whatever its
\* token is.
Endpoint_bug_limiter_first(route, client, token, burst, endpoint) ==
    LET user == current_user(token)
        key == <<route, client>>
    IN  /\ \A k \in DOMAIN hits : k = key
        /\ Count(key) < burst
        /\ hits' = limiter_hit(key)
        /\ IF ~limit(Count(key) + 1, RateLimit)
           THEN /\ resp' = Response(route, client, token, 429,
                                    "Rate limit exceeded", None)
                /\ ret' = NoRet
                /\ limited' = key
                /\ UNCHANGED <<contacts, nextId>>
           ELSE IF user = None
           THEN /\ resp' = Response(route, client, token, 401,
                                    "Could not validate credentials", None)
                /\ ret' = NoRet
                /\ UNCHANGED <<contacts, nextId, limited>>
           ELSE LET h == endpoint[user]
                IN  /\ contacts' = h.db.rows
                    /\ nextId' = h.db.seq
                    /\ ret' = h.call
                    /\ resp' = Response(route, client, token, h.status_code,
                                        h.detail, h.body)
                    /\ UNCHANGED limited
        /\ UNCHANGED <<today, tracked>>
        /\ UNCHANGED <<users_table, open_sessions>>
\* One request to a route: the dependency, then the limiter, then the endpoint.
\* burst bounds the requests explored in one window, which holds the counter
\* of one key at a time.
Endpoint(route, client, token, burst, endpoint) ==
    LET user == current_user(token)
        key == <<route, client>>
    IN  /\ \A k \in DOMAIN hits : k = key
        /\ Count(key) < burst
        /\ IF user = None
           THEN /\ resp' = Response(route, client, token, 401,
                                    "Could not validate credentials", None)
                /\ ret' = NoRet
                /\ UNCHANGED <<contacts, nextId, hits, limited>>
           ELSE IF ~limit(Count(key) + 1, RateLimit)
           THEN /\ hits' = limiter_hit(key)
                /\ resp' = Response(route, client, token, 429,
                                    "Rate limit exceeded", None)
                /\ ret' = NoRet
                /\ limited' = key
                /\ UNCHANGED <<contacts, nextId>>
           ELSE LET h == endpoint[user]
                IN  /\ hits' = limiter_hit(key)
                    /\ contacts' = h.db.rows
                    /\ nextId' = h.db.seq
                    /\ ret' = h.call
                    /\ resp' = Response(route, client, token, h.status_code,
                                        h.detail, h.body)
                    /\ UNCHANGED limited
        /\ UNCHANGED <<today, tracked>>
        /\ UNCHANGED <<users_table, open_sessions>>

Route_read_contacts(client, token, offset, limit_, burst) ==
    Endpoint("read_contacts", client, token, burst,
        [user \in Users |->
            LET result == get_contacts(offset, limit_, user, db)
            IN  Handled(db, Call("get_contacts", user, 0, None, <<>>, offset, limit_, result),
                        200, "", ContactResponses(result))])

Route_search_contacts(client, token, query, offset, limit_, burst) ==
    Endpoint("search_contacts", client, token, burst,
        [user \in Users |->
            LET result == search_contacts(query, offset, limit_, user, db)
            IN  Handled(db, Call("search_contacts", user, 0, None, query, offset, limit_, result),
                        200, "", ContactResponses(result))])

Route_find_birthdays(client, token, offset, limit_, burst) ==
    Endpoint("find_birthdays", client, token, burst,
        [user \in Users |->
            LET result == find_contacts_by_birthday(offset, limit_, user, db, today)
            IN  Handled(db, Call("find_contacts_by_birthday", user, 0, None, <<>>,
                                 offset, limit_, result),
                        200, "", ContactResponses(result))])

Route_read_contact(client, token, contact_id, burst) ==
    Endpoint("read_contact", client, token, burst,
        [user \in Users |->
            LET r == [db |-> db, result |-> get_contact(contact_id, user, db)]
            IN  contact_or_404(r, Call("get_contact", user, contact_id, None, <<>>,
                                       0, 0, r.result))])

Route_create_contact(client, token, body, burst) ==
    /\ nextId <= MaxId
    /\ Len(contacts) < MaxRows
    /\ Endpoint("create_contact", client, token, burst,
        [user \in Users |->
            LET r == create_contact(body, user, db)
            IN  Handled(r.db, Call("create_contact", user, 0, body, <<>>, 0, 0, r.result),
                        201, "", ContactResponse(r.result))])

Route_update_contact(client, token, contact_id, body, burst) ==
    Endpoint("update_contact", client, token, burst,
        [user \in Users |->
            LET r == update_contact(contact_id, body, user, db)
            IN  contact_or_404(r, Call("update_contact", user, contact_id, body, <<>>,
                                       0, 0, r.result))])

Route_remove_contact(client, token, contact_id, burst) ==
    Endpoint("remove_contact", client, token, burst,
        [user \in Users |->
            LET r == remove_contact(contact_id, user, db)
            IN  contact_or_404(r, Call("remove_contact", user, contact_id, None, <<>>,
                                       0, 0, r.result))])

(***************************************************************************)
(* SpecRoutes: requests of two users and of callers without a usable       *)
(* access token, each request the first of its window.                     *)
(***************************************************************************)
Clients == {"10.0.0.1", "10.0.0.2"}
User1 == CHOOSE u \in Users : u.id = 1
User2 == CHOOSE u \in Users : u.id = 2

Tokens ==
    { AccessToken(User1), AccessToken(User2), RefreshToken(User1),
      Token(User1.email, "access", TRUE, TRUE),
      Token(User1.email, "access", FALSE, FALSE),
      None }

NextRoutes ==
    \/ \E token \in Tokens : Route_read_contacts("10.0.0.1", token, 0, 10, 1)
    \/ \E token \in Tokens : Route_search_contacts("10.0.0.1", token, <<"j","%">>, 0, 10, 1)
    \/ \E token \in Tokens : Route_find_birthdays("10.0.0.1", token, 0, 10, 1)
    \/ \E token \in Tokens, contact_id \in Ids :
          Route_read_contact("10.0.0.1", token, contact_id, 1)
    \/ \E token \in Tokens, body \in Bodies :
          Route_create_contact("10.0.0.1", token, body, 1)
    \/ \E token \in Tokens, contact_id \in Ids, body \in Bodies :
          Route_update_contact("10.0.0.1", token, contact_id, body, 1)
    \/ \E token \in Tokens, contact_id \in Ids :
          Route_remove_contact("10.0.0.1", token, contact_id, 1)
    \/ Rollover

SpecRoutes == Init /\ [][NextRoutes]_vars

(***************************************************************************)
(* SpecLimiter: requests of two clients that carry the access token of one *)
(* user, up to MaxOver requests beyond the ceiling in a window.            *)
(***************************************************************************)
Burst == RateLimit + MaxOver

NextLimiter ==
    \/ \E client \in Clients :
          Route_read_contacts(client, AccessToken(User1), 0, 10, Burst)
    \/ \E client \in Clients :
          Route_search_contacts(client, AccessToken(User1), <<"j","%">>, 0, 10, Burst)
    \/ \E client \in Clients :
          Route_find_birthdays(client, AccessToken(User1), 0, 10, Burst)
    \/ \E client \in Clients : Route_read_contact(client, AccessToken(User1), 1, Burst)
    \/ \E client \in Clients :
          Route_create_contact(client, AccessToken(User1), Body1, Burst)
    \/ \E client \in Clients :
          Route_update_contact(client, AccessToken(User1), 1, Body2, Burst)
    \/ \E client \in Clients : Route_remove_contact(client, AccessToken(User1), 1, Burst)
    \/ Rollover

SpecLimiter == Init /\ [][NextLimiter]_vars

(***************************************************************************)
(* SpecBirthday: today is a day of one of the months of CheckedMonths (a   *)
(* February of 28 and one of 29 days, a month of 30 days, two ends of a    *)
(* year); contacts are created with birthdays around today and looked up   *)
(* through GET /contacts/birthday.                                         *)
(***************************************************************************)
CheckedMonths ==
    { <<2023, 2>>, <<2023, 11>>, <<2023, 12>>, <<2024, 1>>, <<2024, 2>>, <<2024, 12>> }

\* Of each month its first two days, the 10th, and the days from the 20th on:
\* the days whose week stays inside the month, and the days whose week leaves it.
DaysChecked ==
    UNION { { Date(ym[1], ym[2], d) :
                d \in {1, 2, 10} \cup 20..DaysInMonth(ym[1], ym[2]) } :
            ym \in CheckedMonths }

PrevDate(d) ==
    IF d.day > 1 THEN [d EXCEPT !.day = d.day - 1]
    ELSE IF d.month > 1
         THEN Date(d.year, d.month - 1, DaysInMonth(d.year, d.month - 1))
         ELSE Date(d.year - 1, 12, 31)

\* A birthday in the leap year 2000 with the month and day of d.
BirthdayOn(d) == Date(2000, d.month, d.day)

BirthdayBody(birthday) ==
    ContactRequest(<<"J","o">>, <<"D","o","e">>, NULL, "None", birthday)

\* The birthdays given to the contacts of a user: for the first user the day
\* before today, today, today + 7 days, today + 8 days and no birthday; for
\* the second user today and today + 3 days.
BirthdaysNear(user) ==
    IF user.id = 1
    THEN { BirthdayOn(PrevDate(today)), BirthdayOn(today),
           BirthdayOn(timedelta(today, 7)), BirthdayOn(timedelta(today, 8)), NoDate }
    ELSE { BirthdayOn(today), BirthdayOn(timedelta(today, 3)) }

InitBirthday ==
    /\ InitStore
    /\ today \in DaysChecked

NextBirthday ==
    \/ \E user \in Users : \E birthday \in BirthdaysNear(user) :
          Route_create_contact("10.0.0.1", AccessToken(user), BirthdayBody(birthday), 1)
    \/ \E user \in Users :
          Route_find_birthdays("10.0.0.1", AccessToken(user), 0, 10, 1)
    \/ Rollover

SpecBirthday == InitBirthday /\ [][NextBirthday]_vars

(***************************************************************************)
(* The user repository (src/src/repository/users.py) over the users table. *)
(* A row has the columns of the User model: id, username, email (unique),  *)
(* password, avatar, confirmed (false when the row is inserted) and        *)
(* refresh_token.  A call returns, or raises before it has committed.      *)
(***************************************************************************)
MaxUsers == 2       \* rows the users table may hold

UserModel(username, email, password) ==
    [username |-> username, email |-> email, password |-> password]

UserModels ==
    { UserModel("Orest", "test@example.com", "password"),
      UserModel("Olena", "test@example.com", "secret1"),
      UserModel("Taras", "other@example.com", "password") }

Emails == {"test@example.com", "other@example.com", "nobody@example.com"}
AvatarUrls == {[url |-> "https://example.com/avatar.jpg"]}
RefreshTokens == {[token |-> "new_token"], None}
Passwords == {"new_hash_password"}

\* Gravatar(email).get_image(): the image URL of the e-mail address.
get_image(email) == [url |-> "https://www.gravatar.com/avatar/", hash |-> email]

\* The lookup either hands back the URL or raises.
Lookups == {"found", "raises"}

\* User(**body.model_dump(), avatar=avatar), with the id the insert gives it.
NewUser(id, body, avatar) ==
    [id |-> id, username |-> body.username, email |-> body.email,
     password |-> body.password, avatar |-> avatar, confirmed |-> FALSE,
     refresh_token |-> None]

\* What a call leaves behind: the rows, what it returned, and how it ended.
Returns(rows, result) == [rows |-> rows, result |-> result, outcome |-> "returns"]
Raises(rows, error) == [rows |-> rows, result |-> None, outcome |-> error]

\* The rows with the row of the id replaced.
Stored(rows, user) ==
    [i \in 1..Len(rows) |-> IF rows[i].id = user.id THEN user ELSE rows[i]]

get_user_by_email(email, rows) ==
    first(SelectSeq(rows, LAMBDA u : u.email = email))

\* The lookup's failure is not caught: nothing is added.
create_user_bug_propagates(body, lookup, rows) ==
    IF lookup = "raises" THEN Raises(rows, "Exception")
    ELSE IF get_user_by_email(body.email, rows) # None
         THEN Raises(rows, "IntegrityError")
         ELSE LET new_user == NewUser(Len(rows) + 1, body, get_image(body.email))
              IN  Returns(Append(rows, new_user), new_user)
\* db.commit() raises for an e-mail address that a row already has.
create_user(body, lookup, rows) ==
    LET avatar == IF lookup = "raises" THEN None ELSE get_image(body.email)
        new_user == NewUser(Len(rows) + 1, body, avatar)
    IN  IF get_user_by_email(body.email, rows) # None
        THEN Raises(rows, "IntegrityError")
        ELSE Returns(Append(rows, new_user), new_user)

update_token(user, token, rows) ==
    Returns(Stored(rows, [user EXCEPT !.refresh_token = token]), None)

\* The flag flipped instead of set.
confirmed_email_bug_toggle(email, rows) ==
    LET user == get_user_by_email(email, rows)
    IN  IF user = None THEN Raises(rows, "AttributeError")
        ELSE Returns(Stored(rows, [user EXCEPT !.confirmed = ~user.confirmed]), None)
\* user.confirmed = True on None raises AttributeError before db.commit().
confirmed_email(email, rows) ==
    LET user == get_user_by_email(email, rows)
    IN  IF user = None THEN Raises(rows, "AttributeError")
        ELSE Returns(Stored(rows, [user EXCEPT !.confirmed = TRUE]), None)

\* Absence handed back as None, the way the contact repository does.
update_avatar_bug_returns_none(email, url, rows) ==
    LET user == get_user_by_email(email, rows)
    IN  IF user = None THEN Returns(rows, None)
        ELSE LET updated == [user EXCEPT !.avatar = url]
             IN  Returns(Stored(rows, updated), updated)
\* user.avatar = url on None raises AttributeError before db.commit().
update_avatar(email, url, rows) ==
    LET user == get_user_by_email(email, rows)
    IN  IF user = None THEN Raises(rows, "AttributeError")
        ELSE LET updated == [user EXCEPT !.avatar = url]
             IN  Returns(Stored(rows, updated), updated)

update_password(user, new_hash_password, rows) ==
    LET updated == [user EXCEPT !.password = new_hash_password]
    IN  Returns(Stored(rows, updated), updated)

\* One call of the user repository: the rows it leaves, and the record of it.
UserCall(op, email, body, lookup, r) ==
    /\ users' = r.rows
    /\ uret' = [op |-> op, email |-> email, body |-> body, lookup |-> lookup,
                outcome |-> r.outcome, result |-> r.result, pre |-> users]
    /\ UNCHANGED <<contacts, nextId, today, ret, tracked, hits, resp, limited>>
    /\ UNCHANGED open_sessions

UserRepo_get_user_by_email(email) ==
    UserCall("get_user_by_email", email, None, "",
             Returns(users, get_user_by_email(email, users)))

UserRepo_create_user(body, lookup) ==
    /\ Len(users) < MaxUsers \/ get_user_by_email(body.email, users) # None
    /\ UserCall("create_user", body.email, body, lookup,
                create_user(body, lookup, users))

\* The callers pass a user they have loaded from the table.
UserRepo_update_token(i, token) ==
    /\ i \in 1..Len(users)
    /\ UserCall("update_token", users[i].email, None, "",
                update_token(users[i], token, users))

UserRepo_confirmed_email(email) ==
    UserCall("confirmed_email", email, None, "", confirmed_email(email, users))

UserRepo_update_avatar(email, url) ==
    UserCall("update_avatar", email, None, "", update_avatar(email, url, users))

UserRepo_update_password(i, new_hash_password) ==
    /\ i \in 1..Len(users)
    /\ UserCall("update_password", users[i].email, None, "",
                update_password(users[i], new_hash_password, users))

NextUsers ==
    \/ \E email \in Emails : UserRepo_get_user_by_email(email)
    \/ \E body \in UserModels, lookup \in Lookups : UserRepo_create_user(body, lookup)
    \/ \E i \in 1..MaxUsers, token \in RefreshTokens : UserRepo_update_token(i, token)
    \/ \E email \in Emails : UserRepo_confirmed_email(email)
    \/ \E email \in Emails, url \in AvatarUrls : UserRepo_update_avatar(email, url)
    \/ \E i \in 1..MaxUsers, new_hash_password \in Passwords :
          UserRepo_update_password(i, new_hash_password)

SpecUsers == Init /\ [][NextUsers]_vars

(***************************************************************************)
(* SpecOrder: one client sends requests with and without a usable access   *)
(* token to GET /contacts/{id} and POST /contacts, up to MaxOver requests   *)
(* beyond the ceiling in a window.                                         *)
(***************************************************************************)
OrderTokens == { AccessToken(User1), RefreshToken(User1), None }

NextOrder ==
    \/ \E token \in OrderTokens : Route_read_contact("10.0.0.1", token, 1, Burst)
    \/ \E token \in OrderTokens : Route_create_contact("10.0.0.1", token, Body1, Burst)
    \/ Rollover

SpecOrder == Init /\ [][NextOrder]_vars

(***************************************************************************)
(* SpecSessions: update_contact run by two request sessions at once, step  *)
(* by step.  The query loads the row into the session; the assignments     *)
(* change the loaded object; db.commit() flushes an UPDATE of the columns  *)
(* whose assigned value differs from the loaded one (the unit of work      *)
(* writes the net changes of an object, and nothing for an object without  *)
(* any) and commits.  The returned object is read back from the table.     *)
(***************************************************************************)
Body3 ==
    ContactRequest(<<"J","o">>, <<"R","o","e">>, <<"r","@","x",".","y">>,
                   "+380501234567", Date(2001, 3, 4))

SessionBodies == {Body1, Body2, Body3}

Columns == {"first_name", "last_name", "email", "phone_number", "birthday"}

\* contact = db.query(Contact).filter(and_(...)).first()
Session_query(s, user, contact_id, body) ==
    /\ sessions[s].pc = "idle"
    /\ LET contact == first(SelectSeq(contacts,
                            LAMBDA c : c.id = contact_id /\ c.user_id = user.id))
       IN  IF contact = None
           THEN /\ ret' = Call("update_contact", user, contact_id, body, <<>>, 0, 0, None)
                /\ UNCHANGED sessions
           ELSE /\ sessions' = [sessions EXCEPT ![s] =
                                  [pc |-> "loaded", user |-> user,
                                   contact_id |-> contact_id, body |-> body, contact |-> contact,
                                   loaded |-> contact]]
                /\ UNCHANGED ret
    /\ UNCHANGED <<contacts, nextId, today, tracked, hits, resp, limited>>
    /\ UNCHANGED <<users_table, committed>>

\* contact.first_name = body.first_name ... contact.birthday = body.birthday
Session_assign(s) ==
    /\ sessions[s].pc = "loaded"
    /\ LET session == sessions[s]
       IN  sessions' = [sessions EXCEPT ![s] =
                          [session EXCEPT
                              !.pc = "assigned",
                              !.contact = Contact(session.loaded.id, session.body,
                                                  session.loaded.user_id)]]
    /\ UNCHANGED <<contacts, nextId, today, ret, tracked, hits, resp, limited>>
    /\ UNCHANGED <<users_table, committed>>

\* The row after UPDATE contacts SET <changed columns> WHERE id = <loaded id>.
flush(row, contact, loaded) ==
    [col \in DOMAIN row |->
        IF col \in Columns /\ contact[col] # loaded[col] THEN contact[col] ELSE row[col]]

\* db.commit(); return contact
Session_commit(s) ==
    /\ sessions[s].pc = "assigned"
    /\ LET session == sessions[s]
           rows == [i \in 1..Len(contacts) |->
                       IF contacts[i].id = session.loaded.id
                       THEN flush(contacts[i], session.contact, session.loaded)
                       ELSE contacts[i]]
       IN  /\ contacts' = rows
           /\ ret' = Call("update_contact", session.user, session.contact_id, session.body,
                          <<>>, 0, 0,
                          first(SelectSeq(rows, LAMBDA c : c.id = session.loaded.id)))
           /\ committed' = [session |-> s, contact_id |-> session.contact_id,
                            body |-> session.body]
    /\ sessions' = [sessions EXCEPT ![s] = Idle]
    /\ UNCHANGED <<nextId, today, tracked, hits, resp, limited, users_table>>

NextSessions ==
    \/ \E body \in Bodies : Repo_create_contact(User1, body)
    \/ \E s \in SessionIds, body \in SessionBodies : Session_query(s, User1, 1, body)
    \/ \E s \in SessionIds : Session_assign(s)
    \/ \E s \in SessionIds : Session_commit(s)

SpecSessions == Init /\ [][NextSessions]_vars

(***************************************************************************)
(* Claims.                                                                 *)
(***************************************************************************)
\* The contacts a call handed back to its caller.
Returned(r) ==
    IF r.op \in {"get_contacts", "search_contacts", "find_contacts_by_birthday"}
    THEN {r.result[i] : i \in 1..Len(r.result)}
    ELSE IF r.result = None THEN {} ELSE {r.result}

RowsOfOthers(rows, user) == SelectSeq(rows, LAMBDA c : c.user_id # user.id)
RowsOf(rows, user) == SelectSeq(rows, LAMBDA c : c.user_id = user.id)

\* The call named a contact that was stored and owned by the caller.
Owned(r) ==
    \E i \in 1..Len(r.pre) :
        r.pre[i].id = r.contact_id /\ r.pre[i].user_id = r.user.id

\* The call named a contact that was stored and owned by another user.
Foreign(r) ==
    \E i \in 1..Len(r.pre) :
        r.pre[i].id = r.contact_id /\ r.pre[i].user_id # r.user.id

\* C1: whatever calls were made before, every contact a repository call
\* returns to its caller u has user_id = u.id, and the call leaves the rows of
\* every other user as they were (none changed, none removed).
C1_OwnContactsOnly ==
    ret.op # "" =>
        /\ \A c \in Returned(ret) : c.user_id = ret.user.id
        /\ RowsOfOthers(contacts, ret.user) = RowsOfOthers(ret.pre, ret.user)

\* C1, its case: a get, an update or a delete named a contact of another user.
C1_Witness ==
    /\ ret.op \in {"get_contact", "update_contact", "remove_contact"}
    /\ Foreign(ret)

\* C4 as stated: after a remove_contact(id) by u, whatever it returned, every
\* later remove_contact(id) by u returns None and changes nothing.
C4_AnySecondDeleteNotFound ==
    [][ ( /\ tracked # NoCall
          /\ ret'.op = "remove_contact"
          /\ ret'.user = tracked.user
          /\ ret'.contact_id = tracked.contact_id )
        => (ret'.result = None /\ contacts' = contacts /\ nextId' = nextId) ]_vars

\* C4, amended: after a remove_contact(id) by u made when id had already been
\* assigned by the sequence, every later remove_contact(id) by u returns None
\* and changes nothing, whatever calls were made in between.
C4_SecondDeleteNotFound ==
    [][ ( /\ tracked # NoCall
          /\ tracked.assigned
          /\ ret'.op = "remove_contact"
          /\ ret'.user = tracked.user
          /\ ret'.contact_id = tracked.contact_id )
        => (ret'.result = None /\ contacts' = contacts /\ nextId' = nextId) ]_vars

\* C4, its case: the first delete removed the contact, other contacts were
\* created since, and the same user deleted the same id again.
C4_Witness ==
    /\ tracked.found
    /\ ret.op = "remove_contact"
    /\ ret.user = tracked.user
    /\ ret.contact_id = tracked.contact_id
    /\ ret.result = None
    /\ nextId > tracked.contact_id + 1

\* s contains q, compared case-insensitively.
Contains(s, q) ==
    /\ s # NULL
    /\ \E i \in 0..(Len(s) - Len(q)) :
          \A j \in 1..Len(q) : Lower(s[i + j]) = Lower(q[j])

\* C5: search returns the page of the caller's contacts whose first name, last
\* name or e-mail contains the query as a substring, compared
\* case-insensitively, and no other contact.
C5_SearchBySubstring ==
    ret.op = "search_contacts" =>
        ret.result =
            offset_limit(
                SelectSeq(ret.pre,
                    LAMBDA c : /\ c.user_id = ret.user.id
                               /\ (\/ Contains(c.first_name, ret.query)
                                   \/ Contains(c.last_name, ret.query)
                                   \/ Contains(c.email, ret.query))),
                ret.offset, ret.limit)

\* The five fields of a stored contact, as a request body.
ContactFields(c) ==
    ContactRequest(c.first_name, c.last_name, c.email, c.phone_number, c.birthday)

\* create returned a contact with a fresh id and the fields of the body, and
\* POST /contacts answered 201 with that contact.
CreateReturnsBody ==
    ret.op = "create_contact" =>
        /\ ret.result # None
        /\ ret.result.id >= 1
        /\ \A i \in 1..Len(ret.pre) : ret.pre[i].id # ret.result.id
        /\ ContactFields(ret.result) = ret.body
        /\ resp.status_code = 201
        /\ resp.body = ContactResponse(ret.result)

\* C2: create(b) by u returns a contact with an assigned id and the fields of
\* b, the route answering 201; and the get(id) of u that follows the create
\* returns a contact with that id and the five fields of b.
C2_GetAfterCreate ==
    [][ /\ CreateReturnsBody'
        /\ ( /\ ret.op = "create_contact"
             /\ ret'.op = "get_contact"
             /\ ret'.user = ret.user
             /\ ret'.contact_id = ret.result.id )
           => /\ ret'.result # None
              /\ ret'.result.id = ret.result.id
              /\ ContactFields(ret'.result) = ret.body
              /\ resp'.status_code = 200 ]_vars

\* C2, its case: a get returned the contact created last, which is still the
\* last row of the table.
C2_Witness ==
    /\ ret.op = "get_contact"
    /\ ret.result # None
    /\ ret.result.id = nextId - 1
    /\ contacts # <<>>
    /\ contacts[Len(contacts)] = ret.result
    /\ resp.status_code = 200

\* C3: an update of an id that is not stored, or is stored for another user,
\* returns None, is answered 404, and leaves the table as it was.
C3_UpdateNotFound ==
    (ret.op = "update_contact" /\ ~Owned(ret)) =>
        /\ ret.result = None
        /\ contacts = ret.pre
        /\ resp.status_code = 404
        /\ resp.detail = "Contact not found"

\* C3, its case: an update named the contact of another user, with a body
\* other than that contact's fields.
C3_Witness ==
    /\ ret.op = "update_contact"
    /\ \E i \in 1..Len(ret.pre) :
          /\ ret.pre[i].id = ret.contact_id
          /\ ret.pre[i].user_id # ret.user.id
          /\ ContactFields(ret.pre[i]) # ret.body

CountIn(h, key) == IF key \in DOMAIN h THEN h[key] ELSE 0

RouteNames ==
    {"read_contacts", "search_contacts", "find_birthdays", "read_contact",
     "create_contact", "update_contact", "remove_contact"}

C7_RefreshTokenRejected ==
    (resp.route # "" /\ resp.token # None /\ resp.token.type = "refresh") =>
        /\ resp.status_code = 401
        /\ ret.op = ""
        /\ resp.body = None

\* C7, its case: a signed, unexpired refresh token of a user who has contacts
\* was presented to a route.
C7_Witness ==
    /\ resp.route # ""
    /\ resp.token = RefreshToken(User1)
    /\ \E i \in 1..Len(contacts) : contacts[i].user_id = User1.id

\* C8: get, update and delete of an id that is absent for the caller return
\* None; the routes answer 404 with detail "Contact not found" exactly when the
\* result is None, and 200 with the contact otherwise.
C8_NotFoundIs404 ==
    ret.op \in {"get_contact", "update_contact", "remove_contact"} =>
        /\ ~Owned(ret) => ret.result = None
        /\ ret.result = None =>
              /\ resp.status_code = 404
              /\ resp.detail = "Contact not found"
              /\ resp.body = None
        /\ ret.result # None =>
              /\ resp.status_code = 200
              /\ resp.body = ContactResponse(ret.result)

\* C8, its case: a get or a delete of an id absent for the caller, while the
\* table holds contacts, answered 404.
C8_Witness ==
    /\ ret.op \in {"get_contact", "remove_contact"}
    /\ ~Owned(ret)
    /\ ret.pre # <<>>
    /\ resp.status_code = 404

\* Month and day of a date as one number: 1228 for 28 December.
MonthDay(d) == d.month * 100 + d.day

\* C9: the birthday lookup returns exactly the caller's contacts whose
\* birthday, as MM-DD, lies between today's MM-DD and the MM-DD of today + 7
\* days, both ends included (start <= birthday <= end).
C9_BirthdayWindow ==
    ret.op = "find_contacts_by_birthday" =>
        ret.result =
            SelectSeq(ret.pre,
                LAMBDA c : /\ c.user_id = ret.user.id
                           /\ c.birthday # NoDate
                           /\ MonthDay(today) <= MonthDay(c.birthday)
                           /\ MonthDay(c.birthday) <= MonthDay(timedelta(today, 7)))

\* C9, its case: the lookup returned a contact whose birthday is the last day
\* of the window and left out another contact of the caller.
C9_Witness ==
    /\ ret.op = "find_contacts_by_birthday"
    /\ \E i \in 1..Len(ret.result) :
          MonthDay(ret.result[i].birthday) = MonthDay(timedelta(today, 7))
    /\ Len(RowsOf(ret.pre, ret.user)) > Len(ret.result)

\* C10: whatever day today is, GET /contacts/birthday returns every contact of
\* the caller whose birthday has today's month and day.
C10_TodaysBirthdayIncluded ==
    (resp.route = "find_birthdays" /\ resp.status_code = 200) =>
        \A i \in 1..Len(contacts) :
            ( /\ contacts[i].user_id = ret.user.id
              /\ contacts[i].birthday # NoDate
              /\ contacts[i].birthday.month = today.month
              /\ contacts[i].birthday.day = today.day )
            => \E j \in 1..Len(resp.body) : resp.body[j] = ContactResponse(contacts[i])

\* The row of the table, before the call, that the call named.
Named(r) == CHOOSE c \in {r.pre[i] : i \in 1..Len(r.pre)} : c.id = r.contact_id

\* The rows other than the one with the id.
RowsBut(rows, contact_id) == SelectSeq(rows, LAMBDA c : c.id # contact_id)

\* An update of a contact of the caller returned the contact with the five
\* fields of the body under the same id and owner, stored it in place of the
\* old row, and left every other row as it was.
UpdateReplaces ==
    (ret.op = "update_contact" /\ Owned(ret)) =>
        /\ ret.result = Contact(Named(ret).id, ret.body, Named(ret).user_id)
        /\ ret.result.id = ret.contact_id
        /\ ret.result.user_id = ret.user.id
        /\ Len(contacts) = Len(ret.pre)
        /\ \E i \in 1..Len(contacts) : contacts[i] = ret.result
        /\ RowsBut(contacts, ret.contact_id) = RowsBut(ret.pre, ret.contact_id)

\* C11: update(id, body) by u on a contact of u replaces the five mutable
\* fields by the values of body and keeps id and user_id, every other contact
\* staying as it was; the get(id) of u that follows returns exactly the
\* values of body.
C11_UpdateReplacesFields ==
    [][ /\ UpdateReplaces'
        /\ ( /\ ret.op = "update_contact"
             /\ Owned(ret)
             /\ ret'.op = "get_contact"
             /\ ret'.user = ret.user
             /\ ret'.contact_id = ret.contact_id )
           => /\ ret'.result # None
              /\ ret'.result.id = ret.contact_id
              /\ ret'.result.user_id = ret.user.id
              /\ ContactFields(ret'.result) = ret.body ]_vars

\* C11, its case: an update changed all five fields of a contact of the
\* caller while the table held another contact.
C11_Witness ==
    /\ ret.op = "update_contact"
    /\ Owned(ret)
    /\ Len(ret.pre) = 2
    /\ Named(ret).first_name # ret.body.first_name
    /\ Named(ret).last_name # ret.body.last_name
    /\ Named(ret).email # ret.body.email
    /\ Named(ret).phone_number # ret.body.phone_number
    /\ Named(ret).birthday # ret.body.birthday

\* A delete of a contact of the caller returned the row as it was stored and
\* took it, and nothing else, out of the table.
RemoveTakesRow ==
    (ret.op = "remove_contact" /\ Owned(ret)) =>
        /\ ret.result = Named(ret)
        /\ contacts = RowsBut(ret.pre, ret.contact_id)
        /\ \A i \in 1..Len(contacts) : contacts[i].id # ret.contact_id

\* C12: delete(id) by u on a contact of u returns the contact as it was just
\* before the call and removes it, every other contact staying stored and
\* unchanged; afterwards get(id) by u returns None, and list and search by u
\* do not contain it.
C12_DeleteRemovesContact ==
    [][ /\ RemoveTakesRow'
        /\ ( /\ ret.op = "remove_contact"
             /\ Owned(ret)
             /\ ret'.user = ret.user )
           => /\ (ret'.op = "get_contact" /\ ret'.contact_id = ret.contact_id)
                    => ret'.result = None
              /\ ret'.op \in {"get_contacts", "search_contacts"}
                    => \A c \in Returned(ret') : c.id # ret.contact_id ]_vars

\* C12, its case: a delete took one of two contacts of the caller and left the
\* other.
C12_Witness ==
    /\ ret.op = "remove_contact"
    /\ Owned(ret)
    /\ Len(RowsOf(ret.pre, ret.user)) = 2
    /\ Len(contacts) = 1

Max(a, b) == IF a > b THEN a ELSE b

\* C13: list(offset, limit) by u returns min(limit, max(0, n - offset))
\* contacts, n being the number of contacts of u, and they are the contacts
\* of u from the one after the first offset of them on, in row order;
\* contacts of other users do not count.
C13_ListPage ==
    ret.op = "get_contacts" =>
        LET own == RowsOf(ret.pre, ret.user)
            k == Min(ret.limit, Max(0, Len(own) - ret.offset))
        IN  /\ Len(ret.result) = k
            /\ \A i \in 1..k : ret.result[i] = own[ret.offset + i]

\* C13, its case: the first row of the table is of another user, and the page
\* of one contact from offset 0 is the caller's contact behind it.
C13_Witness ==
    /\ ret.op = "get_contacts"
    /\ ret.offset = 0
    /\ ret.limit = 1
    /\ Len(ret.pre) = 2
    /\ ret.pre[1].user_id # ret.user.id
    /\ ret.result = <<ret.pre[2]>>

\* The contacts of the caller whose birthday is in the window of the call.
BirthdayMatches(r) ==
    SelectSeq(r.pre,
        LAMBDA c : /\ c.user_id = r.user.id
                   /\ c.birthday # NoDate
                   /\ MonthDay(today) <= MonthDay(c.birthday)
                   /\ MonthDay(c.birthday) <= MonthDay(timedelta(today, 7)))

\* C14: the birthday lookup skips the first offset matching contacts and
\* returns at most limit of them.
C14_BirthdayHonoursPaging ==
    ret.op = "find_contacts_by_birthday" =>
        ret.result = offset_limit(BirthdayMatches(ret), ret.offset, ret.limit)

\* The row of the e-mail address, in rows.
UserOf(email, rows) == CHOOSE u \in {rows[i] : i \in 1..Len(rows)} : u.email = email
HasUser(email, rows) == \E i \in 1..Len(rows) : rows[i].email = email

\* C15: a user is created unconfirmed; confirmed_email(email) leaves the user
\* of the e-mail address confirmed; and no call of the user repository takes
\* a user's confirmed flag from true back to false.
C15_ConfirmedMonotonic ==
    [][ /\ (uret'.op = "create_user" /\ uret'.outcome = "returns")
              => (~uret'.result.confirmed /\ ~UserOf(uret'.email, users').confirmed)
        /\ (uret'.op = "confirmed_email" /\ HasUser(uret'.email, users))
              => (uret'.outcome = "returns" /\ UserOf(uret'.email, users').confirmed)
        /\ \A i \in 1..Len(users) :
              users[i].confirmed =>
                  /\ i <= Len(users')
                  /\ users'[i].id = users[i].id
                  /\ users'[i].confirmed ]_vars

\* C15, its case: the password of a confirmed user was replaced while the
\* table held an unconfirmed user too.
C15_Witness ==
    /\ uret.op = "update_password"
    /\ uret.result.confirmed
    /\ UserOf(uret.email, uret.pre).confirmed
    /\ \E i \in 1..Len(users) : ~users[i].confirmed

\* What create_user does when it persists: the returned user has the
\* username, e-mail address and password of the body, it is the row added to
\* the table, and its avatar is None when the lookup raised and the looked-up
\* URL when it did not.
CreatePersists ==
    /\ uret.outcome = "returns"
    /\ uret.result # None
    /\ uret.result.username = uret.body.username
    /\ uret.result.email = uret.body.email
    /\ uret.result.password = uret.body.password
    /\ users = Append(uret.pre, uret.result)
    /\ uret.lookup = "raises" => uret.result.avatar = None
    /\ uret.lookup = "found" => uret.result.avatar = get_image(uret.body.email)

\* C16 as stated: create_user always persists and returns the user of the
\* body, whether the avatar lookup succeeds or raises.
C16_CreateUserAlwaysPersists ==
    uret.op = "create_user" => CreatePersists

\* C16, amended: create_user with an e-mail address that no stored user has
\* persists and returns the user of the body, whether the avatar lookup
\* succeeds or raises; with an e-mail address already stored, the commit
\* raises and nothing is added.
C16_CreateUserPersists ==
    uret.op = "create_user" =>
        IF HasUser(uret.email, uret.pre)
        THEN uret.outcome = "IntegrityError" /\ users = uret.pre
        ELSE CreatePersists

\* C16, its case: the lookup raised and the user was added, without avatar, to
\* a table that held another user.
C16_Witness ==
    /\ uret.op = "create_user"
    /\ uret.lookup = "raises"
    /\ uret.outcome = "returns"
    /\ Len(users) = 2
    /\ users[2].avatar = None
    /\ users[2].email = uret.body.email

\* C20: confirmed_email(email) and update_avatar(email, url) for an e-mail
\* address that no user has do not return: the assignment on None raises
\* AttributeError before the commit, and no row of the users table changes;
\* get_user_by_email of such an address returns None.
C20_MissingUserRaises ==
    /\ (uret.op \in {"confirmed_email", "update_avatar"} /\ ~HasUser(uret.email, uret.pre))
          => /\ uret.outcome = "AttributeError"
             /\ uret.result = None
             /\ users = uret.pre
    /\ (uret.op = "get_user_by_email" /\ ~HasUser(uret.email, uret.pre))
          => /\ uret.outcome = "returns"
             /\ uret.result = None
             /\ users = uret.pre

\* C20, its case: update_avatar was called with an e-mail address that none of
\* the stored users has.
C20_Witness ==
    /\ uret.op = "update_avatar"
    /\ users # << >>
    /\ ~HasUser(uret.email, users)
    /\ uret.outcome = "AttributeError"

\* The table as it would be without the contacts of the users other than user.
OwnView(user) == [rows |-> RowsOf(contacts, user), seq |-> nextId]

\* C19: what get, update, delete, list and search hand to a caller u, and what
\* update and delete do to the contacts of u, is the same in the table and in
\* the table without the contacts of other users, so it is the same in any
\* two tables that differ only in contacts of other users; and get, update
\* and delete return None for every id that u does not own.
C19_OthersInvisible ==
    \A user \in Users :
        LET own == OwnView(user)
        IN  /\ \A contact_id \in Ids :
                  /\ get_contact(contact_id, user, db) = get_contact(contact_id, user, own)
                  /\ remove_contact(contact_id, user, db).result
                        = remove_contact(contact_id, user, own).result
                  /\ RowsOf(remove_contact(contact_id, user, db).db.rows, user)
                        = remove_contact(contact_id, user, own).db.rows
                  /\ \A body \in Bodies :
                        /\ update_contact(contact_id, body, user, db).result
                              = update_contact(contact_id, body, user, own).result
                        /\ RowsOf(update_contact(contact_id, body, user, db).db.rows, user)
                              = update_contact(contact_id, body, user, own).db.rows
                  /\ (\A i \in 1..Len(own.rows) : own.rows[i].id # contact_id)
                        => /\ get_contact(contact_id, user, db) = None
                           /\ remove_contact(contact_id, user, db).result = None
                           /\ \A body \in Bodies :
                                 update_contact(contact_id, body, user, db).result = None
            /\ \A page \in Pages :
                  /\ get_contacts(page[1], page[2], user, db)
                        = get_contacts(page[1], page[2], user, own)
                  /\ \A query \in Queries :
                        search_contacts(query, page[1], page[2], user, db)
                            = search_contacts(query, page[1], page[2], user, own)

\* C19, its case: a user who has a contact asked to delete a contact of
\* another user, stored before the user's own, and was told not-found.
C19_Witness ==
    /\ ret.op = "remove_contact"
    /\ Foreign(ret)
    /\ ret.result = None
    /\ Len(contacts) = 2
    /\ contacts[1].id = ret.contact_id
    /\ contacts[2].user_id = ret.user.id

\* C17: the stored contact equals, in all five mutable fields, the body of
\* the update that committed last, however the steps of two sessions that
\* update it were interleaved.
C17_LastWriteWins ==
    committed # None =>
        \A i \in 1..Len(contacts) :
            contacts[i].id = committed.contact_id
                => ContactFields(contacts[i]) = committed.body

\* The token resolves to a user: present, signed, not expired, of type access.
Resolves(token) ==
    /\ token # None
    /\ token.signed
    /\ ~token.expired
    /\ token.type = "access"

\* A step in which a route answered a request.
Answered == resp' # resp \/ (hits' # hits /\ hits' # << >>)

\* C18 as stated: the rate limit is checked before the token is resolved: a
\* request over the ceiling is answered 429 whatever its token, and a request
\* whose token is missing or invalid has been counted when it is rejected.
C18_LimiterBeforeAuth ==
    [][ Answered =>
          LET key == <<resp'.route, resp'.client>>
          IN  /\ CountIn(hits, key) >= 10 => resp'.status_code = 429
              /\ ~Resolves(resp'.token)
                    => CountIn(hits', key) = CountIn(hits, key) + 1 ]_vars

\* C18, amended: the token is resolved before the rate limit is checked: a
\* request whose token is missing or invalid is answered 401 without being
\* counted, also when the client is over the ceiling; a request with a valid
\* token is counted, is answered 429 without a repository call when it is
\* over the ceiling, and reaches the repository when it is not.
C18_AuthBeforeLimiter ==
    [][ Answered =>
          LET key == <<resp'.route, resp'.client>>
          IN  /\ ~Resolves(resp'.token) =>
                    /\ resp'.status_code = 401
                    /\ hits' = hits
                    /\ ret'.op = ""
                    /\ contacts' = contacts
              /\ Resolves(resp'.token) =>
                    /\ CountIn(hits', key) = CountIn(hits, key) + 1
                    /\ CountIn(hits, key) >= 10 =>
                          /\ resp'.status_code = 429
                          /\ ret'.op = ""
                          /\ contacts' = contacts
                    /\ CountIn(hits, key) < 10 =>
                          /\ resp'.status_code \in {200, 201, 404}
                          /\ ret'.op # "" ]_vars

\* C18, its case: a client over the ceiling of a route sent a request without
\* a usable token and was answered 401.
C18_Witness ==
    /\ resp.status_code = 401
    /\ ~Resolves(resp.token)
    /\ Count(<<resp.route, resp.client>>) > 10
    /\ limited = <<resp.route, resp.client>>

====
